---- MODULE Spec2Model ----
(***************************************************************************)
(* Model of src/EwladMPRef.py: EwaldBlock and HadamardBlock.               *)
(*                                                                         *)
(* Tensors are sequences (rows) of sequences of integers.  Angles are      *)
(* counted in quarter turns (k is given in units of pi/2 and x in integer  *)
(* units), so that cos and sin are exact; the argument of torch.sinc is    *)
(* an integer, where the normalised sinc is exactly 1 (at 0) or 0.         *)
(* The result of the 0.01 scaling is kept as an exact fraction num/den.    *)
(***************************************************************************)
EXTENDS Integers, Sequences, FiniteSets

VARIABLES
    self,          \* EwaldBlock instances: attributes of each block
    W,             \* parameters of every Dense / ResidualLayer module, by module id
    scale_factor,  \* the externally configured scale factor of each ScaleFactor name
    h, x, k, num_batch, batch_seg,   \* the caller's batch (arguments of forward)
    device,        \* device of the caller's tensors (x.device)
    dot, sinc_damping,               \* the caller's dot / sinc_damping (None before the first block)
    h_update,      \* what the last EwaldBlock.forward returned as update
    last,          \* the operation that ran last
    bf, idx_s, idx_t,                \* the caller's edges (arguments of HadamardBlock.forward)
    x2,            \* the aggregate of the last HadamardBlock.forward (line 291)
    hd_x           \* what the last HadamardBlock.forward returned

vars == <<self, W, scale_factor, h, x, k, num_batch, batch_seg, device, dot,
          sinc_damping, h_update, last, bf, idx_s, idx_t, x2, hd_x>>

ewaldVars == <<self, h, x, k, num_batch, batch_seg, device, dot, sinc_damping,
               h_update>>
hadamardVars == <<bf, idx_s, idx_t, x2, hd_x>>

----------------------------------------------------------------------------
(* Bounds of the model *)

MaxAtoms == 2      \* atoms per structure
MaxW == 1          \* an optimizer step adds 0..MaxW to the initial weights
MaxScale == 2      \* configured scale factors are 1..MaxScale
MaxEdges == 2      \* edges of a HadamardBlock call

(* Sizes fixed by the constructor arguments and the input shapes *)

emb_size_atom == 2
downprojection_size == 1
NumK == 2          \* k.shape[-2]
num_hidden == 1
emb_size_bf == 1

----------------------------------------------------------------------------
(* Values: None, a Python number, a tensor *)

None == [kind |-> "None", val |-> <<>>]
Scalar(c) == [kind |-> "scalar", val |-> <<<<c>>>>]
Tensor(m) == [kind |-> "tensor", val |-> m]
IsNone(v) == v.kind = "None"

(* a fraction num/den of tensors, as produced by the 0.01 scaling *)
Frac(m, d) == [kind |-> "tensor", val |-> m, den |-> d]

----------------------------------------------------------------------------
(* Tensor algebra *)

\* torch runs eagerly: a tensor is a value computed once, when its statement runs,
\* not a rule evaluated again at every access
Strict(f) == IF f = f THEN f ELSE f
Eager(t) == t = t

RECURSIVE SeqSum(_)
SeqSum(s) == IF s = <<>> THEN 0 ELSE Head(s) + SeqSum(Tail(s))

Rows(m) == Len(m)
Cols(m) == IF Len(m) = 0 THEN 0 ELSE Len(m[1])

\* torch.matmul(a, b)
MatMul(a, b) ==
    Strict([i \in 1..Rows(a) |-> [j \in 1..Cols(b) |->
        SeqSum([l \in 1..Cols(a) |-> a[i][l] * b[l][j]])]])

\* .T
Transpose(m) == Strict([j \in 1..Cols(m) |-> [i \in 1..Rows(m) |-> m[i][j]]])

\* .unsqueeze(0).expand(n, -1, -1)
Expand(m, n) == Strict([b \in 1..n |-> m])

MatAdd(a, b) ==
    Strict([i \in 1..Rows(a) |-> [j \in 1..Cols(a) |-> a[i][j] + b[i][j]]])
MatScale(c, a) ==
    Strict([i \in 1..Rows(a) |-> [j \in 1..Cols(a) |-> c * a[i][j]]])

\* new_zeros(r, c)
Zeros(r, c) == Strict([i \in 1..r |-> [j \in 1..c |-> 0]])

\* cos and sin of n quarter turns
CosQ(n) == CASE n % 4 = 0 -> 1 [] n % 4 = 1 -> 0 [] n % 4 = 2 -> -1 [] OTHER -> 0
SinQ(n) == CASE n % 4 = 0 -> 0 [] n % 4 = 1 -> 1 [] n % 4 = 2 -> 0 [] OTHER -> -1

\* torch.sinc at an integer argument: sin(pi n)/(pi n)
Sinc(n) == IF n = 0 THEN 1 ELSE 0

----------------------------------------------------------------------------
(* The collaborators: Dense, ResidualLayer, ScaleFactor *)

\* Dense(in, out, activation=None, bias=False): X |-> X * weight^T
DenseLayer(layer, X) == MatMul(X, Transpose(layer.weights[1]))

\* ResidualLayer(units, nLayers=2): X |-> X + dense2(dense1(X))
ResidualLayer(layer, X) ==
    MatAdd(X, MatMul(MatMul(X, Transpose(layer.weights[1])),
                     Transpose(layer.weights[2])))

ApplyLayer(layer, X) ==
    IF layer.type = "Dense" THEN DenseLayer(layer, X) ELSE ResidualLayer(layer, X)

\* for layer in layers: x = layer(x)
RECURSIVE ApplyLayers(_, _, _)
ApplyLayers(Wt, ids, X) ==
    IF ids = <<>> THEN X
    ELSE ApplyLayers(Wt, Tail(ids), ApplyLayer(Wt[Head(ids)], X))

\* ScaleFactor(name)(value, ref): the value times the configured factor
ScaleFactor(sc, name, value, ref) == MatScale(sc[name], value)

\* ScaleFactor(name + "_sum")
SumName(name) == <<name, "_sum">>

----------------------------------------------------------------------------
(* EwaldBlock.forward, step by step *)

\* lines 142-143: gather k by batch_seg, multiply by x, sum over the last axis
DotProduct(k_, x_, seg) ==
    Strict([i \in 1..Len(x_) |-> [j \in 1..Len(k_[1]) |->
        SeqSum([l \in 1..3 |-> k_[seg[i] + 1][j][l] * x_[i][l]])]])

\* (mutant) the dot products are computed on every call
ResolveDotAlways(dotArg, k_, x_, seg) == Tensor(DotProduct(k_, x_, seg))

\* line 141: a supplied dot is used as it is
ResolveDot(dotArg, k_, x_, seg) ==
    IF IsNone(dotArg) THEN Tensor(DotProduct(k_, x_, seg)) ELSE dotArg

\* lines 147-152: product of three sinc terms, expanded over the k axis
SincProduct(delta_k, k_, x_) ==
    Strict([i \in 1..Len(x_) |-> [j \in 1..Len(k_[1]) |->
          Sinc((delta_k * x_[i][1]) \div 2)
        * Sinc((delta_k * x_[i][2]) \div 2)
        * Sinc((delta_k * x_[i][3]) \div 2)]])

\* (mutant) the boundary condition is tested the wrong way round
ResolveDampingSwapped(blk, sincArg, k_, x_) ==
    IF IsNone(sincArg)
    THEN IF blk.use_pbc = TRUE
         THEN Tensor(SincProduct(blk.delta_k, k_, x_))
         ELSE Scalar(1)
    ELSE sincArg

\* lines 145-154
ResolveDamping(blk, sincArg, k_, x_) ==
    IF IsNone(sincArg)
    THEN IF blk.use_pbc = FALSE
         THEN Tensor(SincProduct(blk.delta_k, k_, x_))
         ELSE Scalar(1)
    ELSE sincArg

\* sinc_damping[i][j], a Python number broadcasting over every atom and mode
Damp(s, i, j) == IF s.kind = "scalar" THEN s.val[1][1] ELSE s.val[i][j]

\* (mutant) the filter of an earlier call is kept
KFilterCached(blk, Wt, nb) ==
    IF ~IsNone(blk.kfilter) THEN blk.kfilter.val
    ELSE IF blk.use_pbc
    THEN Expand(Transpose(MatMul(Wt[blk.up].weights[1], Wt[blk.down].weights[1])), nb)
    ELSE Expand(DenseLayer(Wt[blk.up], DenseLayer(Wt[blk.down], blk.k_rbf_values.val)), nb)

\* lines 157-169
KFilter(blk, Wt, nb) ==
    IF blk.use_pbc
    THEN Expand(Transpose(MatMul(Wt[blk.up].weights[1], Wt[blk.down].weights[1])), nb)
    ELSE Expand(DenseLayer(Wt[blk.up], DenseLayer(Wt[blk.down], blk.k_rbf_values.val)), nb)

\* line 164: self.k_rbf_values.to(x.device)
MoveRbf(blk, dev) ==
    IF blk.use_pbc THEN blk.k_rbf_values
    ELSE [blk.k_rbf_values EXCEPT !.device = dev]

\* hres.unsqueeze(-2).expand(..) * (sinc_damping * trig(dot)).unsqueeze(-1).expand(..)
\* for atom i: a (numK x emb) matrix; trig is "cos" or "sin"
Trig(t, n) == IF t = "cos" THEN CosQ(n) ELSE SinQ(n)
Phase(t, sd, d, i, j) == Damp(sd, i, j) * Trig(t, d.val[i][j])
Contribution(t, hres, sd, d, i) ==
    Strict([j \in 1..Len(d.val[i]) |-> [e \in 1..Len(hres[i]) |->
        hres[i][e] * Phase(t, sd, d, i, j)]])

\* index_add_(0, index, src) on acc, atom after atom
RECURSIVE IndexAdd(_, _, _, _)
IndexAdd(acc, index, src, i) ==
    IF i > Len(index) THEN acc
    ELSE IndexAdd([acc EXCEPT ![index[i] + 1] = MatAdd(@, src[i])], index, src, i + 1)

\* (mutant) every atom is added to the accumulator of the first structure
StructureFactorUnsegmented(t, hres, sd, d, nb, seg) ==
  CASE Eager(<<hres, sd, d>>) ->
    IndexAdd(Strict([b \in 1..nb |-> Zeros(Len(d.val[1]), Len(hres[1]))]),
             [i \in 1..Len(seg) |-> 0],
             Strict([i \in 1..Len(seg) |-> Contribution(t, hres, sd, d, i)]), 1)

\* lines 172-191
StructureFactor(t, hres, sd, d, nb, seg) ==
  CASE Eager(<<hres, sd, d>>) ->
    IndexAdd(Strict([b \in 1..nb |-> Zeros(Len(d.val[1]), Len(hres[1]))]), seg,
             Strict([i \in 1..Len(seg) |-> Contribution(t, hres, sd, d, i)]), 1)

\* torch.index_select(sf * kfilter, 0, batch_seg)[i][j][e]
Selected(sf, kf, seg, i, j, e) == sf[seg[i] + 1][j][e] * kf[seg[i] + 1][j][e]

\* lines 194-205: the sum over the k axis, scaled by 0.01
InverseTransform(sf_real, sf_imag, kf, sd, d, seg) ==
  CASE Eager(<<sf_real, sf_imag, kf, sd, d>>) ->
    Frac(Strict([i \in 1..Len(seg) |-> [e \in 1..Len(sf_real[1][1]) |->
            SeqSum([j \in 1..Len(d.val[i]) |->
                  Selected(sf_real, kf, seg, i, j, e) * Phase("cos", sd, d, i, j)
                + Selected(sf_imag, kf, seg, i, j, e) * Phase("sin", sd, d, i, j)])]]),
         100)

\* (mutant) the update is rescaled whether or not a name was given
RescaleAlways(blk, sc, hu, h_) ==
    [hu EXCEPT !.val = ScaleFactor(sc, SumName(blk.up[1]), hu.val, h_)]

\* lines 207-208
Rescale(blk, sc, hu, h_) ==
    IF ~IsNone(blk.ewald_scale_sum)
    THEN [hu EXCEPT !.val = ScaleFactor(sc, blk.ewald_scale_sum.val, hu.val, h_)]
    ELSE hu

\* lines 210-217: the update network, and what the call assigns and returns
Return(blk, Wt, dev, d, sd, kf, sfr, sfi, hs) ==
  CASE Eager(hs) ->
    [h_update |-> [hs EXCEPT !.val = ApplyLayers(Wt, blk.ewald_layers, hs.val)],
     dot |-> d, sinc_damping |-> sd,
     kfilter |-> Tensor(kf), k_rbf_values |-> MoveRbf(blk, dev),
     sf_real |-> sfr, sf_imag |-> sfi]

\* lines 194-208
Update(blk, Wt, sc, h_, seg, dev, d, sd, kf, sfr, sfi) ==
  CASE Eager(<<sfr, sfi>>) ->
    Return(blk, Wt, dev, d, sd, kf, sfr, sfi,
           Rescale(blk, sc, InverseTransform(sfr, sfi, kf, sd, d, seg), h_))

\* lines 172-191
Accumulate(blk, Wt, sc, h_, nb, seg, dev, hres, d, sd, kf) ==
  CASE Eager(<<hres, d, sd, kf>>) ->
    Update(blk, Wt, sc, h_, seg, dev, d, sd, kf,
           StructureFactor("cos", hres, sd, d, nb, seg),
           StructureFactor("sin", hres, sd, d, nb, seg))

\* lines 138-217: one call of EwaldBlock.forward
forward(blk, Wt, sc, h_, x_, k_, nb, seg, dotArg, sincArg, dev) ==
    Accumulate(blk, Wt, sc, h_, nb, seg, dev,
               ResidualLayer(Wt[blk.pre_residual], h_),
               ResolveDot(dotArg, k_, x_, seg),
               ResolveDamping(blk, sincArg, k_, x_),
               KFilter(blk, Wt, nb))

----------------------------------------------------------------------------
(* HadamardBlock.forward, step by step *)

\* line 289: torch.index_select(h_res, 0, idx_s) * mlp_bf
Messages(h_res, mlp_bf, s_) ==
    Strict([e \in 1..Len(s_) |-> [c \in 1..Len(mlp_bf[e]) |->
        h_res[s_[e] + 1][c] * mlp_bf[e][c]]])

RowAdd(a, b) == Strict([c \in 1..Len(a) |-> a[c] + b[c]])

\* (mutant) a later edge replaces what earlier edges brought to the same atom
RECURSIVE ScatterLast(_, _, _, _)
ScatterLast(out, src, index, e) ==
    IF e > Len(index) THEN out
    ELSE ScatterLast([out EXCEPT ![index[e] + 1] = src[e]], src, index, e + 1)

\* scatter(src, index, dim=0, reduce="sum") into out, edge after edge
RECURSIVE ScatterSum(_, _, _, _)
ScatterSum(out, src, index, e) ==
    IF e > Len(index) THEN out
    ELSE ScatterSum([out EXCEPT ![index[e] + 1] = RowAdd(@, src[e])],
                    src, index, e + 1)

\* (mutant) as scatter, a later edge replacing the earlier ones
scatterLast(src, index, dim_size, width) ==
  CASE Eager(<<src, index>>) ->
    Strict(ScatterLast(Zeros(dim_size, width), src, index, 1))

\* (mutant) as scatter without dim_size: as many rows as the largest index needs
scatterNoDimSize(src, index, dim_size, width) ==
  CASE Eager(<<src, index>>) ->
    Strict(ScatterSum(Zeros(SeqSum([e \in 1..Len(index) |->
                                IF \A f \in 1..Len(index) :
                                      index[f] < index[e] \/ (index[f] = index[e] /\ f >= e)
                                THEN index[e] + 1 ELSE 0]), width),
                      src, index, 1))

\* line 291: scatter(x, idx_t, dim=0, dim_size=nAtoms, reduce="sum")
scatter(src, index, dim_size, width) ==
  CASE Eager(<<src, index>>) ->
    Strict(ScatterSum(Zeros(dim_size, width), src, index, 1))

\* lines 293-298: self.scale_sum(h, x2), then the layers; what the call returns,
\* with the aggregate of line 291
HadamardUpdate(blk, Wt, sc, h_, agg) ==
  CASE Eager(agg) ->
    [x2 |-> agg,
     x |-> ApplyLayers(Wt, blk.layers, ScaleFactor(sc, blk.scale_sum, h_, agg))]

\* lines 289-291
Aggregate(blk, Wt, sc, h_, s_, t_, h_res, mlp_bf) ==
  CASE Eager(<<h_res, mlp_bf>>) ->
    HadamardUpdate(blk, Wt, sc, h_,
                   scatter(Messages(h_res, mlp_bf, s_), t_, Len(h_), Len(h_res[1])))

\* lines 284-298: one call of HadamardBlock.forward
hadamard_forward(blk, Wt, sc, h_, bf_, s_, t_) ==
    Aggregate(blk, Wt, sc, h_, s_, t_,
              ResidualLayer(Wt[blk.pre_residual], h_),
              DenseLayer(Wt[blk.dense_bf], bf_))

----------------------------------------------------------------------------
(* Construction *)

Blocks == {"ewald1", "ewald2"}

\* the downprojection the enclosing model builds once and hands to every block
shared_downprojection == <<"model", "down">>

\* k_rbf_values handed to the constructor (numK x num_rbf), built on the cpu
RbfValues == [val |-> <<<<1, 0>>, <<1, 1>>>>, device |-> "cpu"]

\* lines 100-121: ids of the Dense layer and the residual layers of the update network
get_mlp(b) == <<<<b, "dense1">>>> \o [i \in 1..num_hidden |-> <<b, "res", i>>]

\* (mutant) the constructor keeps a copy of the downprojection
EwaldBlockCopiesDown(b, shared, name, use_pbc, return_k_params) ==
    [use_pbc |-> use_pbc,
     return_k_params |-> return_k_params,
     delta_k |-> 2,
     k_rbf_values |-> RbfValues,
     down |-> <<b, "down">>,
     up |-> <<b, "up">>,
     pre_residual |-> <<b, "pre_residual">>,
     ewald_layers |-> get_mlp(b),
     ewald_scale_sum |-> IF name # "None"
                         THEN [kind |-> "ScaleFactor", val |-> SumName(name)]
                         ELSE None,
     kfilter |-> None]

\* lines 78-98: the attributes the constructor sets
EwaldBlock(b, shared, name, use_pbc, return_k_params) ==
    [use_pbc |-> use_pbc,
     return_k_params |-> return_k_params,
     delta_k |-> 2,
     k_rbf_values |-> RbfValues,
     down |-> shared,
     up |-> <<b, "up">>,
     pre_residual |-> <<b, "pre_residual">>,
     ewald_layers |-> get_mlp(b),
     ewald_scale_sum |-> IF name # "None"
                         THEN [kind |-> "ScaleFactor", val |-> SumName(name)]
                         ELSE None,
     kfilter |-> None]

\* lines 254-265: the attributes of the HadamardBlock
HadamardBlock(name) ==
    [name |-> name,
     dense_bf |-> <<"hadamard", "dense_bf">>,
     scale_sum |-> SumName(name),
     pre_residual |-> <<"hadamard", "pre_residual">>,
     layers |-> get_mlp("hadamard")]

hadamard == HadamardBlock("hadamard_atom_update")

RangeOf(s) == {s[i] : i \in DOMAIN s}

\* every module some block refers to
ModuleIds(blocks) ==
    UNION {{blocks[b].down, blocks[b].up, blocks[b].pre_residual}
           \cup RangeOf(blocks[b].ewald_layers) : b \in DOMAIN blocks}
    \cup {hadamard.dense_bf, hadamard.pre_residual} \cup RangeOf(hadamard.layers)

\* the weights a module is constructed with, by the kind of module
InitialModule(id) ==
    CASE id[2] = "down" -> [type |-> "Dense", weights |-> << <<<<1, 3>>>> >>]
      [] id[2] = "up" -> [type |-> "Dense", weights |-> << <<<<1>>, <<2>>>> >>]
      [] id[2] = "dense_bf" -> [type |-> "Dense", weights |-> << <<<<1>>, <<2>>>> >>]
      [] id[2] = "dense1" -> [type |-> "Dense", weights |-> << <<<<1, 1>>, <<0, 1>>>> >>]
      [] id[2] = "pre_residual" ->
            [type |-> "ResidualLayer",
             weights |-> << <<<<1, 0>>, <<0, 0>>>>, <<<<1, 0>>, <<0, 1>>>> >>]
      [] OTHER ->
            [type |-> "ResidualLayer",
             weights |-> << <<<<0, 0>>, <<0, 1>>>>, <<<<1, 0>>, <<0, 1>>>> >>]

\* the weights after the optimizer moved every entry by c
Shifted(ws, c) ==
    Strict([n \in 1..Len(ws) |-> [i \in 1..Rows(ws[n]) |-> [j \in 1..Cols(ws[n]) |->
        ws[n][i][j] + c]]])

ScaleNames == {SumName("ewald1"), SumName("ewald2"), hadamard.scale_sum}

----------------------------------------------------------------------------
(* The batches a caller hands in *)

AtomO == [h |-> <<1, 0>>, x |-> <<0, 0, 0>>]
AtomP == [h |-> <<1, 2>>, x |-> <<1, 0, 0>>]
AtomQ == [h |-> <<0, 1>>, x |-> <<1, 2, 1>>]
AtomVals == {AtomO, AtomQ}

K1 == <<<<1, 0, 0>>, <<0, 1, 0>>>>
K2 == <<<<1, 1, 0>>, <<2, 0, 1>>>>
KVals == {K1, K2}

SeqsUpTo(S, n) == UNION {[1..m -> S] : m \in 1..n}

Structures == {[atoms |-> s, k |-> kv] : s \in SeqsUpTo(AtomVals, MaxAtoms), kv \in KVals}

\* the atoms of the structures one after the other, batch_seg naming the structure
RECURSIVE Flatten(_)
Flatten(ss) == IF ss = <<>> THEN <<>> ELSE Head(ss) \o Flatten(Tail(ss))

Batch(structs, dev) ==
    LET atoms == Flatten([s \in 1..Len(structs) |-> structs[s].atoms])
        seg   == Flatten([s \in 1..Len(structs) |->
                            [i \in 1..Len(structs[s].atoms) |-> s - 1]])
    IN  [h |-> Strict([i \in 1..Len(atoms) |-> atoms[i].h]),
         x |-> Strict([i \in 1..Len(atoms) |-> atoms[i].x]),
         k |-> Strict([s \in 1..Len(structs) |-> structs[s].k]),
         num_batch |-> Len(structs),
         batch_seg |-> seg,
         device |-> dev]

----------------------------------------------------------------------------
(* Operations *)

\* the caller receives a batch; nothing is computed for it yet
LoadBatch(bt) ==
    /\ h' = bt.h /\ x' = bt.x /\ k' = bt.k
    /\ num_batch' = bt.num_batch /\ batch_seg' = bt.batch_seg
    /\ device' = bt.device
    /\ dot' = None /\ sinc_damping' = None /\ h_update' = None
    /\ last' = [op |-> "load", blk |-> "None", dot |-> None, sinc_damping |-> None]
    /\ UNCHANGED <<self, W, scale_factor>>
    /\ UNCHANGED hadamardVars

\* (mutant) the pre-residual layer works in place on h
ForwardEffectInPlace(b, dotArg, sincArg, r) ==
    /\ self' = [self EXCEPT ![b].kfilter = r.kfilter,
                            ![b].k_rbf_values = r.k_rbf_values]
    /\ h_update' = r.h_update
    /\ IF self[b].return_k_params
       THEN dot' = r.dot /\ sinc_damping' = r.sinc_damping
       ELSE UNCHANGED <<dot, sinc_damping>>
    /\ last' = [op |-> "forward", blk |-> b, dot |-> dotArg, sinc_damping |-> sincArg]
    /\ h' = ResidualLayer(W[self[b].pre_residual], h)
    /\ UNCHANGED <<W, scale_factor, x, k, num_batch, batch_seg, device>>
    /\ UNCHANGED hadamardVars

\* the effect of a call that computed r: the attributes assigned, the values
\* the caller receives
ForwardEffect(b, dotArg, sincArg, r) ==
    /\ self' = [self EXCEPT ![b].kfilter = r.kfilter,
                            ![b].k_rbf_values = r.k_rbf_values]
    /\ h_update' = r.h_update
    /\ IF self[b].return_k_params
       THEN dot' = r.dot /\ sinc_damping' = r.sinc_damping
       ELSE UNCHANGED <<dot, sinc_damping>>
    /\ last' = [op |-> "forward", blk |-> b, dot |-> dotArg, sinc_damping |-> sincArg]
    /\ UNCHANGED <<W, scale_factor, h, x, k, num_batch, batch_seg, device>>
    /\ UNCHANGED hadamardVars

\* EwaldBlock.forward(h, x, k, num_batch, batch_seg, dotArg, sincArg) on block b
Forward(b, dotArg, sincArg) ==
    ForwardEffect(b, dotArg, sincArg,
                  forward(self[b], W, scale_factor, h, x, k, num_batch, batch_seg,
                          dotArg, sincArg, device))

\* the caller puts a tensor of its own into dot or sinc_damping
SupplyDot(v) ==
    /\ dot' = v
    /\ last' = [op |-> "supply", blk |-> "None", dot |-> None, sinc_damping |-> None]
    /\ UNCHANGED <<self, W, scale_factor, h, x, k, num_batch, batch_seg, device,
                   sinc_damping, h_update>>
    /\ UNCHANGED hadamardVars

SupplyDamping(v) ==
    /\ sinc_damping' = v
    /\ last' = [op |-> "supply", blk |-> "None", dot |-> None, sinc_damping |-> None]
    /\ UNCHANGED <<self, W, scale_factor, h, x, k, num_batch, batch_seg, device,
                   dot, h_update>>
    /\ UNCHANGED hadamardVars

\* the optimizer updates the parameters of the modules ids (reached through a holder)
OptimizerStep(ids, c) ==
    /\ \E id \in ids : W[id].weights # Shifted(InitialModule(id).weights, c)
    /\ W' = [id \in DOMAIN W |->
               IF id \in ids
               THEN [W[id] EXCEPT !.weights = Shifted(InitialModule(id).weights, c)]
               ELSE W[id]]
    /\ last' = [op |-> "optimizer", blk |-> "None", dot |-> None, sinc_damping |-> None]
    /\ UNCHANGED <<scale_factor>>
    /\ UNCHANGED ewaldVars
    /\ UNCHANGED hadamardVars

\* the scale factor of a name is configured (fitted or loaded) outside the blocks
ConfigureScale(name, s) ==
    /\ scale_factor[name] # s
    /\ scale_factor' = [scale_factor EXCEPT ![name] = s]
    /\ last' = [op |-> "configure", blk |-> "None", dot |-> None, sinc_damping |-> None]
    /\ UNCHANGED <<W>>
    /\ UNCHANGED ewaldVars
    /\ UNCHANGED hadamardVars

----------------------------------------------------------------------------
(* State after construction *)

NoCall == [op |-> "init", blk |-> "None", dot |-> None, sinc_damping |-> None]

\* blocks built by the given constructor arguments, the caller holding batch bt
InitWith(names, pbc, rkp, bt, es) ==
    /\ self = [b \in Blocks |->
                 EwaldBlock(b, shared_downprojection, names[b], pbc[b], rkp[b])]
    /\ W = [id \in ModuleIds(self) |-> InitialModule(id)]
    /\ scale_factor = [n \in ScaleNames |-> 1]
    /\ h = bt.h /\ x = bt.x /\ k = bt.k
    /\ num_batch = bt.num_batch /\ batch_seg = bt.batch_seg /\ device = bt.device
    /\ dot = None /\ sinc_damping = None /\ h_update = None
    /\ last = NoCall
    /\ bf = Strict([e \in 1..Len(es) |-> es[e].bf])
    /\ idx_s = Strict([e \in 1..Len(es) |-> es[e].s])
    /\ idx_t = Strict([e \in 1..Len(es) |-> es[e].t])
    /\ x2 = None /\ hd_x = None

----------------------------------------------------------------------------
(* Specification of the dot / sinc_damping hand-over: blocks with either     *)
(* boundary condition, a caller that passes None, what it holds, or tensors  *)
(* of its own                                                                *)

PassBatches ==
    { Batch(<<[atoms |-> <<AtomP, AtomQ>>, k |-> K1]>>, "cpu"),
      Batch(<<[atoms |-> <<AtomO>>, k |-> K2], [atoms |-> <<AtomQ>>, k |-> K1]>>, "cuda") }

\* tensors of the batch's shape that no block computed
CallerDots == {Tensor([i \in 1..Len(x) |-> [j \in 1..NumK |-> i + j]])}
CallerDampings == {Tensor([i \in 1..Len(x) |-> [j \in 1..NumK |-> i + 1]])}

InitCache ==
    \E pbc \in [Blocks -> BOOLEAN], rkp \in BOOLEAN, bt \in PassBatches :
        InitWith([b \in Blocks |-> IF b = "ewald1" THEN "None" ELSE b],
                 pbc, [b \in Blocks |-> b = "ewald1" \/ rkp], bt, <<>>)

NextCache ==
    \/ \E b \in Blocks, dotArg \in {None, dot}, sincArg \in {None, sinc_damping} :
          Forward(b, dotArg, sincArg)
    \/ \E v \in CallerDots : SupplyDot(v)
    \/ \E v \in CallerDampings : SupplyDamping(v)
    \/ \E bt \in PassBatches : LoadBatch(bt)

SpecCache == InitCache /\ [][NextCache]_vars

----------------------------------------------------------------------------
(* Claims checked under SpecCache *)

Called == last.op = "forward"
CalledBlock == self[last.blk]
Atoms == 1..Len(x)
Modes == 1..NumK

\* what a second call returns that is handed the values the caller now holds
PassedBack ==
    forward(CalledBlock, W, scale_factor, h, x, k, num_batch, batch_seg,
            dot, sinc_damping, device)

\* C1: a supplied dot / sinc_damping is returned as it was supplied, a dot that was
\* not supplied is the product k.x of each atom with the vectors of its structure,
\* and a second call that is handed back what the first returned returns the same
\* dot, sinc_damping and update.
C1_DotCaching ==
    (Called /\ CalledBlock.return_k_params) =>
        /\ ~IsNone(last.dot) => dot = last.dot
        /\ ~IsNone(last.sinc_damping) => sinc_damping = last.sinc_damping
        /\ IsNone(last.dot) =>
              \A i \in Atoms, j \in Modes :
                 dot.val[i][j] = k[batch_seg[i] + 1][j][1] * x[i][1]
                               + k[batch_seg[i] + 1][j][2] * x[i][2]
                               + k[batch_seg[i] + 1][j][3] * x[i][3]
        /\ PassedBack.dot = dot
        /\ PassedBack.sinc_damping = sinc_damping
        /\ PassedBack.h_update = h_update

\* a block returned a dot and a damping that the caller had supplied, and the dot is
\* not the one the block would have computed
C1_Witness ==
    /\ Called /\ CalledBlock.return_k_params
    /\ ~IsNone(last.dot) /\ ~IsNone(last.sinc_damping)
    /\ dot # Tensor(DotProduct(k, x, batch_seg))
    /\ dot = last.dot

\* C2 (as claimed): on a block with use_pbc = True the damping returned is 1 for
\* every atom and mode, whatever was passed for sinc_damping.
C2_PbcDampingAlwaysOne ==
    (Called /\ CalledBlock.use_pbc /\ CalledBlock.return_k_params) =>
        \A i \in Atoms, j \in Modes : Damp(sinc_damping, i, j) = 1

Ones == Tensor([i \in Atoms |-> [j \in Modes |-> 1]])

\* C2 (amended): on a block with use_pbc = True that is passed sinc_damping = None
\* the damping returned is the number 1, 1 for every atom and mode, and the update
\* is the one an all-ones damping tensor gives.
C2_PbcDampingOneWhenNotSupplied ==
    (Called /\ CalledBlock.use_pbc /\ IsNone(last.sinc_damping)
            /\ CalledBlock.return_k_params) =>
        /\ sinc_damping = Scalar(1)
        /\ \A i \in Atoms, j \in Modes : Damp(sinc_damping, i, j) = 1
        /\ h_update = forward(CalledBlock, W, scale_factor, h, x, k, num_batch,
                              batch_seg, dot, Ones, device).h_update

\* a periodic block was called without a damping, for atoms away from the origin
C2_Witness ==
    /\ Called /\ CalledBlock.use_pbc /\ IsNone(last.sinc_damping)
    /\ CalledBlock.return_k_params
    /\ \E i \in Atoms : x[i] # <<0, 0, 0>>

\* the attributes of block b other than kfilter are what they were
OnlyKfilterAssigned(b) == self'[b] = [self[b] EXCEPT !.kfilter = self'[b].kfilter]

\* the attributes of block b other than kfilter and k_rbf_values are what they were
OnlyKfilterAndRbfAssigned(b) ==
    self'[b] = [self[b] EXCEPT !.kfilter = self'[b].kfilter,
                               !.k_rbf_values = self'[b].k_rbf_values]

InputsUnchanged ==
    /\ W' = W /\ scale_factor' = scale_factor
    /\ h' = h /\ x' = x /\ k' = k /\ num_batch' = num_batch /\ batch_seg' = batch_seg
    /\ ~IsNone(last'.dot) => dot' = dot
    /\ ~IsNone(last'.sinc_damping) => sinc_damping' = sinc_damping

\* C10 (as claimed): a forward call leaves the parameters, the inputs and a supplied
\* dot / sinc_damping unchanged, and assigns no attribute but kfilter.
C10_OnlyKfilterAssigned ==
    [][last'.op = "forward" =>
          /\ InputsUnchanged
          /\ \A b \in Blocks : OnlyKfilterAssigned(b)]_vars

\* C10 (amended): a forward call leaves the parameters, the inputs and a supplied
\* dot / sinc_damping unchanged; it assigns kfilter, on every call, and on an
\* aperiodic block also k_rbf_values, to the same values on the device of x; on a
\* periodic block kfilter is the only attribute assigned.
C10_Frame ==
    [][last'.op = "forward" =>
          /\ InputsUnchanged
          /\ \A b \in Blocks \ {last'.blk} : self'[b] = self[b]
          /\ ~IsNone(self'[last'.blk].kfilter)
          /\ OnlyKfilterAndRbfAssigned(last'.blk)
          /\ self'[last'.blk].k_rbf_values.val = self[last'.blk].k_rbf_values.val
          /\ self[last'.blk].use_pbc => OnlyKfilterAssigned(last'.blk)
          /\ ~self[last'.blk].use_pbc => self'[last'.blk].k_rbf_values.device = device]_vars

\* an aperiodic block whose k_rbf_values moved to the device of x
C10_Witness ==
    /\ Called /\ ~CalledBlock.use_pbc
    /\ CalledBlock.k_rbf_values.device = "cuda"
    /\ ~IsNone(last.dot)

----------------------------------------------------------------------------
(* Specification of the Fourier filter: the optimizer updates the up- and     *)
(* downprojection between the calls of a model that threads dot and           *)
(* sinc_damping through its blocks                                            *)

FilterBatch ==
    Batch(<<[atoms |-> <<AtomO>>, k |-> K2], [atoms |-> <<AtomQ>>, k |-> K1]>>, "cpu")

InitFilter ==
    \E pbc \in [Blocks -> BOOLEAN] :
        InitWith([b \in Blocks |-> b], pbc, [b \in Blocks |-> TRUE], FilterBatch, <<>>)

NextFilter ==
    \/ \E b \in Blocks : Forward(b, dot, sinc_damping)
    \/ \E b \in Blocks, c \in 0..MaxW : OptimizerStep({self[b].down}, c)
    \/ \E b \in Blocks, c \in 0..MaxW : OptimizerStep({self[b].up}, c)

SpecFilter == InitFilter /\ [][NextFilter]_vars

UpWeight(b) == W[self[b].up].weights[1]
DownWeight(b) == W[self[b].down].weights[1]
Rbf(b) == self[b].k_rbf_values.val

\* C4: the kfilter a forward call leaves in the attribute is the filter of the
\* weights current at that call, whatever weight updates and calls came before:
\* periodic, the transpose of up-weight times down-weight; aperiodic,
\* up(down(k_rbf_values)); the same for each of the num_batch structures.
C4_KFilterRecomputed ==
    Called =>
        /\ Len(CalledBlock.kfilter.val) = num_batch
        /\ \A s \in 1..num_batch, j \in Modes, e \in 1..emb_size_atom :
             CalledBlock.kfilter.val[s][j][e] =
                IF CalledBlock.use_pbc
                THEN SeqSum([l \in 1..downprojection_size |->
                        UpWeight(last.blk)[e][l] * DownWeight(last.blk)[l][j]])
                ELSE SeqSum([l \in 1..downprojection_size |->
                        UpWeight(last.blk)[e][l]
                        * SeqSum([r \in 1..NumK |->
                             Rbf(last.blk)[j][r] * DownWeight(last.blk)[l][r]])])

\* a block was called after a weight update, while another block with the same
\* upprojection still holds the filter of the weights before the update
C4_Witness ==
    /\ Called
    /\ DownWeight(last.blk) # InitialModule(shared_downprojection).weights[1]
    /\ \E b \in Blocks \ {last.blk} :
          /\ ~IsNone(self[b].kfilter)
          /\ self[b].use_pbc = CalledBlock.use_pbc
          /\ UpWeight(b) = UpWeight(last.blk)
          /\ self[b].kfilter # CalledBlock.kfilter

SameFilterInputs(a, b) ==
    /\ self[a].use_pbc = self[b].use_pbc
    /\ Rbf(a) = Rbf(b)
    /\ UpWeight(a) = UpWeight(b)

\* C5: every block holds the shared downprojection itself, and two blocks with
\* the same upprojection weights, use_pbc and k_rbf_values that are called one
\* after the other leave the same kfilter, also after updates of the
\* downprojection made through either of them.
C5_SharedDownprojection ==
    [][/\ \A b \in Blocks : self[b].down = shared_downprojection
       /\ (/\ last.op = "forward" /\ last'.op = "forward"
           /\ last.blk # last'.blk
           /\ SameFilterInputs(last.blk, last'.blk))
          => self'[last'.blk].kfilter = self'[last.blk].kfilter]_vars

\* both blocks computed their filter after an update of the shared downprojection
C5_Witness ==
    /\ Called
    /\ DownWeight(last.blk) # InitialModule(shared_downprojection).weights[1]
    /\ \E b \in Blocks \ {last.blk} :
          /\ SameFilterInputs(b, last.blk)
          /\ ~IsNone(self[b].kfilter)
          /\ self[b].kfilter = CalledBlock.kfilter

----------------------------------------------------------------------------
(* Specification of the scale factor: blocks built with and without a name,   *)
(* scale factors configured from outside, the optimizer updating the          *)
(* pre-residual layer and the update network of a block                       *)

InitScale ==
    \E named \in [Blocks -> BOOLEAN] :
        InitWith([b \in Blocks |-> IF named[b] THEN b ELSE "None"],
                 [b \in Blocks |-> b = "ewald1"], [b \in Blocks |-> TRUE], FilterBatch,
                 <<>>)

NextScale ==
    \/ \E b \in Blocks : Forward(b, dot, sinc_damping)
    \/ \E b \in Blocks, s \in 1..MaxScale : ConfigureScale(SumName(b), s)
    \/ \E b \in Blocks, c \in 0..MaxW :
          OptimizerStep({self[b].pre_residual} \cup RangeOf(self[b].ewald_layers), c)

SpecScale == InitScale /\ [][NextScale]_vars

\* the inverse transform of the last call, before rescaling and update network:
\* 0.01 times the filtered structure factors, read off the attributes and values the
\* call left behind
RawUpdate ==
    InverseTransform(
        StructureFactor("cos", ResidualLayer(W[CalledBlock.pre_residual], h),
                        sinc_damping, dot, num_batch, batch_seg),
        StructureFactor("sin", ResidualLayer(W[CalledBlock.pre_residual], h),
                        sinc_damping, dot, num_batch, batch_seg),
        CalledBlock.kfilter.val, sinc_damping, dot, batch_seg)

UpdateNetwork(b, u) == [u EXCEPT !.val = ApplyLayers(W, self[b].ewald_layers, u.val)]

\* C8: a block built with name = None has no scale factor, and its forward hands the
\* 0.01-scaled inverse transform to the update network as it is, so that no
\* configuration of the scale factors changes its output; a block built with a
\* name hands over the inverse transform times the factor configured for its name.
C8_ScaleToggle ==
    Called =>
        /\ IsNone(CalledBlock.ewald_scale_sum) =>
              /\ h_update = UpdateNetwork(last.blk, RawUpdate)
              /\ h_update.den = 100
              /\ \A sc \in [ScaleNames -> 1..MaxScale] :
                    forward(CalledBlock, W, sc, h, x, k, num_batch, batch_seg,
                            last.dot, last.sinc_damping, device).h_update = h_update
        /\ ~IsNone(CalledBlock.ewald_scale_sum) =>
              h_update = UpdateNetwork(last.blk,
                            [RawUpdate EXCEPT !.val =
                               MatScale(scale_factor[SumName(last.blk)], @)])

\* a block without a name returned a non-zero update while the scale factor that
\* its name would have selected is configured to something other than 1
C8_Witness ==
    /\ Called /\ IsNone(CalledBlock.ewald_scale_sum)
    /\ scale_factor[SumName(last.blk)] # 1
    /\ \E i \in Atoms, e \in 1..emb_size_atom : h_update.val[i][e] # 0

----------------------------------------------------------------------------
(* Specification of batching: the caller holds two structures concatenated    *)
(* into one batch and calls a periodic and an aperiodic block on it           *)

InitBatch ==
    \E s1 \in Structures, s2 \in Structures :
        InitWith([b \in Blocks |-> IF b = "ewald1" THEN "None" ELSE b],
                 [b \in Blocks |-> b = "ewald1"], [b \in Blocks |-> TRUE],
                 Batch(<<s1, s2>>, "cpu"), <<>>)

NextBatch == \E b \in Blocks : Forward(b, dot, sinc_damping)

SpecBatch == InitBatch /\ [][NextBatch]_vars

\* the atoms of structure s, in the order of the batch
RECURSIVE AtomsOf(_, _)
AtomsOf(s, i) ==
    IF i > Len(batch_seg) THEN <<>>
    ELSE (IF batch_seg[i] = s THEN <<i>> ELSE <<>>) \o AtomsOf(s, i + 1)

\* the rows of a per-atom tensor that belong to the atoms idx; None and numbers as they are
Restrict(v, idx) ==
    IF v.kind = "tensor" THEN Tensor(Strict([p \in 1..Len(idx) |-> v.val[idx[p]]])) ELSE v

\* the last call repeated on structure s alone: num_batch = 1, batch_seg all 0
Alone(s, idx) ==
    forward(CalledBlock, W, scale_factor,
            Strict([p \in 1..Len(idx) |-> h[idx[p]]]),
            Strict([p \in 1..Len(idx) |-> x[idx[p]]]),
            <<k[s + 1]>>, 1, [p \in 1..Len(idx) |-> 0],
            Restrict(last.dot, idx), Restrict(last.sinc_damping, idx), device)

\* the last call itself
Together ==
    forward(CalledBlock, W, scale_factor, h, x, k, num_batch, batch_seg,
            last.dot, last.sinc_damping, device)

AgreesWithAlone(s, idx, alone, together) ==
    /\ Eager(<<idx, alone, together>>)
    /\ \A p \in 1..Len(idx) :
          /\ h_update.val[idx[p]] = alone.h_update.val[p]
          /\ dot.val[idx[p]] = alone.dot.val[p]
    /\ Len(alone.h_update.val) = Len(idx)
    /\ h_update.den = alone.h_update.den
    /\ together.sf_real[s + 1] = alone.sf_real[1]
    /\ together.sf_imag[s + 1] = alone.sf_imag[1]

\* C3: the update and the dot products a call on the concatenated batch returns
\* for the atoms of a structure are those the same call returns on that structure
\* alone, and the structure-factor accumulators of a structure are those of the
\* structure alone.
C3_BatchInvariance ==
    Called =>
        \A s \in 0..(num_batch - 1) :
            AgreesWithAlone(s, AtomsOf(s, 1), Alone(s, AtomsOf(s, 1)), Together)

\* a call on two structures that returned a non-zero update for an atom of each
C3_Witness ==
    /\ Called /\ num_batch = 2
    /\ \A s \in 0..1 : \E i \in Atoms, e \in 1..emb_size_atom :
          batch_seg[i] = s /\ h_update.val[i][e] # 0
    /\ k[1] # k[2]

----------------------------------------------------------------------------
(* HadamardBlock: operations and specification *)

HadamardEffect(r) ==
    /\ x2' = Tensor(r.x2)
    /\ hd_x' = Tensor(r.x)
    /\ last' = [op |-> "hadamard", blk |-> "None", dot |-> None, sinc_damping |-> None]
    /\ UNCHANGED <<W, scale_factor, bf, idx_s, idx_t>>
    /\ UNCHANGED ewaldVars

\* HadamardBlock.forward(h, bf, idx_s, idx_t)
HadamardForward ==
    HadamardEffect(hadamard_forward(hadamard, W, scale_factor, h, bf, idx_s, idx_t))

\* embeddings of three atoms
HadamardEmbeddings ==
    { <<<<1, 0>>, <<1, 2>>, <<0, 1>>>>, <<<<2, 1>>, <<0, 3>>, <<1, 1>>>> }

\* edges between them: source, target, radial basis features
EdgeVals ==
    { [s |-> 0, t |-> 1, bf |-> <<1>>], [s |-> 1, t |-> 1, bf |-> <<2>>],
      [s |-> 2, t |-> 0, bf |-> <<1>>], [s |-> 0, t |-> 0, bf |-> <<2>>] }

EdgeLists == {<<>>} \cup SeqsUpTo(EdgeVals, MaxEdges)

InitHadamard ==
    \E hh \in HadamardEmbeddings, es \in EdgeLists :
        InitWith([b \in Blocks |-> b], [b \in Blocks |-> TRUE],
                 [b \in Blocks |-> TRUE],
                 [h |-> hh, x |-> <<>>, k |-> <<>>, num_batch |-> 0,
                  batch_seg |-> <<>>, device |-> "cpu"], es)

NextHadamard ==
    \/ HadamardForward
    \/ \E s \in 1..MaxScale : ConfigureScale(hadamard.scale_sum, s)
    \/ \E c \in 0..MaxW :
          OptimizerStep({hadamard.dense_bf, hadamard.pre_residual}
                        \cup RangeOf(hadamard.layers), c)

SpecHadamard == InitHadamard /\ [][NextHadamard]_vars

HadamardCalled == last.op = "hadamard"
Edges == 1..Len(idx_t)
Into(a) == {e \in Edges : idx_t[e] = a - 1}

\* component c of the message of edge e: h_res[idx_s[e]] * proj(bf[e])
Message(e, c) ==
    ResidualLayer(W[hadamard.pre_residual], h)[idx_s[e] + 1][c]
    * DenseLayer(W[hadamard.dense_bf], bf)[e][c]

\* C6: the aggregate has one row per atom; the row of an atom that no edge
\* targets is zero, and the row of any atom is the sum of the messages
\* h_res[idx_s[e]] * proj(bf[e]) of the edges e that target it.
C6_ZeroAggregate ==
    HadamardCalled =>
        /\ Len(x2.val) = Len(h)
        /\ \A a \in 1..Len(h) :
              /\ Into(a) = {} => x2.val[a] = [c \in 1..emb_size_atom |-> 0]
              /\ \A c \in 1..emb_size_atom :
                    x2.val[a][c] =
                       SeqSum([e \in Edges |-> IF e \in Into(a) THEN Message(e, c) ELSE 0])

\* an atom without incoming edges beside an atom that two edges target
C6_Witness ==
    /\ HadamardCalled
    /\ \E a \in 1..Len(h) : Into(a) = {}
    /\ \E a \in 1..Len(h) : Cardinality(Into(a)) = 2 /\ x2.val[a] # <<0, 0>>

Permutations(n) == {p \in [1..n -> 1..n] : \A i, j \in 1..n : p[i] = p[j] => i = j}
Permuted(t, p) == Strict([e \in 1..Len(t) |-> t[p[e]]])

SameAsReturned(r) == Eager(r) /\ r.x = hd_x.val /\ r.x2 = x2.val

\* C7: with the edges in any other order (idx_s, idx_t and the rows of bf permuted
\* together) the call returns the same output for every atom, and the aggregate it
\* computed on the way is the same.
C7_EdgeOrder ==
    HadamardCalled =>
        \A p \in Permutations(Len(idx_t)) :
            SameAsReturned(hadamard_forward(hadamard, W, scale_factor, h,
                              Permuted(bf, p), Permuted(idx_s, p), Permuted(idx_t, p)))

\* two different edges into the same atom, which a permutation exchanges
C7_Witness ==
    /\ HadamardCalled
    /\ \E e, f \in Edges : e # f /\ idx_t[e] = idx_t[f] /\ idx_s[e] # idx_s[f]
    /\ \E a \in 1..Len(h) : hd_x.val[a] # <<0, 0>>

\* C9 (as claimed): the scale factor rescales the aggregate, with h as the
\* reference, and the rescaled aggregate enters the update network.
C9_AggregateRescaled ==
    HadamardCalled =>
        hd_x.val = ApplyLayers(W, hadamard.layers,
                      ScaleFactor(scale_factor, hadamard.scale_sum, x2.val, h))

====
